---- MODULE Spec2Model ----
(***************************************************************************)
(* ADB auto-provisioner (provision.py): the UI thread's start/stop         *)
(* handlers, the MonitorThread poll loop, its QThreadPool and the          *)
(* DeviceWorker pipelines, as one state machine.                           *)
(*                                                                         *)
(* Threads: the UI thread (start_monitoring / stop_monitoring, the latter  *)
(* a blocking sequence of calls), one thread per MonitorThread, and the    *)
(* pool threads running DeviceWorker.run.  Every subprocess.run is a call  *)
(* to the external bridge: it is invoked in one step and its outcome (a    *)
(* value, an exception, or nothing at all when the bridge hangs) arrives   *)
(* in a later step.                                                        *)
(***************************************************************************)
EXTENDS Integers, Sequences, FiniteSets, TLC

VARIABLES
    max_devices,     \* MainWindow.max_devices, the configured limit
    monitor_thread,  \* MainWindow.monitor_thread: 0 (None) or a monitor's index
    upc,             \* where the UI thread is: "idle", or inside stop()
    mon,             \* the MonitorThread objects, in creation order
    threadpool,      \* threadpool[m]: the queue of monitor m's QThreadPool
    workers          \* the DeviceWorker objects, in creation order

vars == <<max_devices, monitor_thread, upc, mon, threadpool, workers>>

(***************************************************************************)
(* Bounds of the model.                                                    *)
(***************************************************************************)
\* MonitorThread objects created by SpecRestart (start_monitoring, line 295)
MaxMonitors == 2
\* DeviceWorker objects created over a run (line 138)
MaxWorkers == 2
\* values of the max_devices setting that are explored
MaxSetting == 2

(***************************************************************************)
(* Bridge output.  A line of `adb devices` is the sequence of its          *)
(* tab-separated fields; the output of getprop is a sequence of            *)
(* characters.                                                             *)
(***************************************************************************)
Header == <<"List of devices attached">>

Row(s, st) == <<s, st>>

\* what `adb devices` may print: nothing (the server failed), the header
\* alone, or the header and one row per attached device; a row may lack its
\* status column
EnumOutputs ==
    { <<>>,
      <<Header>>,
      <<Header, <<"d1">>>>,
      <<Header, Row("d1", "device")>>,
      <<Header, Row("d1", "unauthorized")>>,
      <<Header, Row("d1", "device"), Row("d2", "offline"), Row("d3", "device")>> }

\* r.stdout of a call that has not returned
NoOutput == <<"unset">>

\* what `getprop sys.boot_completed` may print
ReadyOutputs == {<<"1", "\n">>, <<"0", "\n">>, <<>>}

Whitespace == {" ", "\n", "\t", "\r"}

RECURSIVE LStrip(_)
LStrip(s) == IF s # <<>> /\ Head(s) \in Whitespace THEN LStrip(Tail(s)) ELSE s

RECURSIVE RStrip(_)
RStrip(s) ==
    IF s # <<>> /\ s[Len(s)] \in Whitespace
    THEN RStrip(SubSeq(s, 1, Len(s) - 1))
    ELSE s

\* str.strip()
Strip(s) == RStrip(LStrip(s))

\* fault: any row with a status column counts
EndsWithDevice_AnyStatus(line) == Len(line) >= 2

\* line.strip().endswith("\tdevice")
EndsWithDevice(line) == Len(line) >= 2 /\ line[Len(line)] = "device"

\* r.stdout.splitlines()[1:]
DropFirst(lines) == IF lines = <<>> THEN <<>> ELSE Tail(lines)

\* the loop of lines 130-133: devices.append(line.split("\t")[0])
RECURSIVE CollectDevices(_)
CollectDevices(lines) ==
    IF lines = <<>> THEN <<>>
    ELSE IF EndsWithDevice(Head(lines))
         THEN <<Head(lines)[1]>> \o CollectDevices(Tail(lines))
         ELSE CollectDevices(Tail(lines))

ParseDevices(stdout) == CollectDevices(DropFirst(stdout))

\* the provisioning batch of lines 88-95
commands == <<"pm_disable_setupwizard", "am_broadcast_secret_code">>

(***************************************************************************)
(* The worker pool (QThreadPool, lines 115-116 and 139).                   *)
(***************************************************************************)
\* the positions of DeviceWorker.run at which a pool thread is executing it:
\* each is a call to the bridge that has not returned yet
ActivePcs == {"readiness", "wake", "apply"}

\* the pipelines of pool m that are executing
ActiveSet(ws, m) == {w \in DOMAIN ws : ws[w].pool = m /\ ws[w].pc \in ActivePcs}

activeThreadCount(m) == Cardinality(ActiveSet(workers, m))

\* lines 63-73: run() logs "[+] Processing" and calls getprop
RunBegin(w) ==
    [w EXCEPT !.pc = "readiness", !.inv = <<"getprop">>, !.log = <<"processing">>]

\* fault: the pool admits one runnable more than maxThreadCount
HasFreeThread_OffByOne(m) == activeThreadCount(m) <= mon[m].max_devices

\* QThreadPool.start: the runnable starts at once when a thread is free
\* (fewer than maxThreadCount active), and is queued otherwise
HasFreeThread(m) == activeThreadCount(m) < mon[m].max_devices

\* DeviceWorker(serial, self.signals), lines 56-60
NewWorker(m, serial) ==
    [pool |-> m, serial |-> serial, pc |-> "queued", ci |-> 0,
     r |-> NoOutput, inv |-> <<>>, resp |-> <<>>, log |-> <<>>]

\* fault: start() blocks its caller until a thread is free
PoolStart_Blocking(m, serial) ==
    /\ HasFreeThread(m)
    /\ workers' = Append(workers, RunBegin(NewWorker(m, serial)))
    /\ UNCHANGED threadpool

\* self.threadpool.start(worker), line 139
PoolStart(m, serial) ==
    IF HasFreeThread(m)
    THEN /\ workers' = Append(workers, RunBegin(NewWorker(m, serial)))
         /\ UNCHANGED threadpool
    ELSE /\ workers' = Append(workers, NewWorker(m, serial))
         /\ threadpool' = [threadpool EXCEPT ![m] = Append(@, Len(workers) + 1)]

\* run() of worker w is over, with w left as `rec`: its pool thread takes the
\* next queued runnable, if there is one
PoolFinish(w, rec) ==
    LET m == workers[w].pool
        q == threadpool[m]
    IN IF q = <<>>
       THEN /\ workers' = [workers EXCEPT ![w] = rec]
            /\ UNCHANGED threadpool
       ELSE /\ workers' = [workers EXCEPT ![w] = rec,
                                          ![Head(q)] = RunBegin(workers[Head(q)])]
            /\ threadpool' = [threadpool EXCEPT ![m] = Tail(q)]

(***************************************************************************)
(* DeviceWorker.run, lines 62-100.                                         *)
(***************************************************************************)
\* fault: any output at all counts as booted
IsReady_NonEmpty(out) == Strip(out) # <<>>

\* the answers of the bridge whose output run() does not read: the call
\* returned (lines 82-85 and 98 ignore output and exit status), or raised
Returned == <<"returned">>
Raised == <<"raised">>

\* line 74: r.stdout.strip() != "1" is false
IsReady(out) == Strip(out) = <<"1">>

\* lines 74-76 and 82-85: getprop returned `out`.  resp is what the bridge
\* has answered to the pipeline so far, call by call.
ReadinessReturn(w, out) ==
    /\ workers[w].pc = "readiness"
    /\ IF ~IsReady(out)
       THEN PoolFinish(w, [workers[w] EXCEPT !.pc = "returned", !.r = out,
                                             !.resp = Append(@, out),
                                             !.log = Append(@, "boot_timeout")])
       ELSE /\ workers' = [workers EXCEPT ![w].pc = "wake", ![w].r = out,
                                          ![w].resp = Append(@, out),
                                          ![w].inv = Append(@, "keyevent")]
            /\ UNCHANGED threadpool
    /\ UNCHANGED <<max_devices, monitor_thread, upc, mon>>

\* fault: the exception of the readiness call is logged and swallowed, and
\* run() goes on to the wake call
ReadinessRaise_Continues(w) ==
    /\ workers[w].pc = "readiness"
    /\ workers' = [workers EXCEPT ![w].pc = "wake",
                                  ![w].resp = Append(@, Raised),
                                  ![w].log = Append(@, "boot_check_failed"),
                                  ![w].inv = Append(@, "keyevent")]
    /\ UNCHANGED <<max_devices, monitor_thread, upc, mon, threadpool>>

\* lines 77-79: getprop raised (spawn failure, or the 120 s timeout)
ReadinessRaise(w) ==
    /\ workers[w].pc = "readiness"
    /\ PoolFinish(w, [workers[w] EXCEPT !.pc = "returned",
                                        !.resp = Append(@, Raised),
                                        !.log = Append(@, "boot_check_failed")])
    /\ UNCHANGED <<max_devices, monitor_thread, upc, mon>>

\* fault: a run remembers the devices an earlier run has finished, and runs
\* only the last command for them
WakeReturn_SkipsProvisioned(w) ==
    /\ workers[w].pc = "wake"
    /\ LET known == \E v \in DOMAIN workers :
                        /\ workers[v].serial = workers[w].serial
                        /\ workers[v].log = <<"processing", "done">>
           first == IF known THEN Len(commands) ELSE 1
       IN  workers' = [workers EXCEPT ![w].pc = "apply", ![w].ci = first,
                                      ![w].resp = Append(@, Returned),
                                      ![w].inv = Append(@, commands[first])]
    /\ UNCHANGED <<max_devices, monitor_thread, upc, mon, threadpool>>

\* lines 82-98: the wake call returned (any exit status); the first
\* command of the batch is run
WakeReturn(w) ==
    /\ workers[w].pc = "wake"
    /\ workers' = [workers EXCEPT ![w].pc = "apply", ![w].ci = 1,
                                  ![w].resp = Append(@, Returned),
                                  ![w].inv = Append(@, commands[1])]
    /\ UNCHANGED <<max_devices, monitor_thread, upc, mon, threadpool>>

\* lines 82-85: the wake call raised; nothing catches it
WakeRaise(w) ==
    /\ workers[w].pc = "wake"
    /\ PoolFinish(w, [workers[w] EXCEPT !.pc = "raised",
                                        !.resp = Append(@, Raised)])
    /\ UNCHANGED <<max_devices, monitor_thread, upc, mon>>

\* fault: "Done" is logged and run() returns after the first command
CommandReturn_DoneEarly(w) ==
    /\ workers[w].pc = "apply"
    /\ PoolFinish(w, [workers[w] EXCEPT !.pc = "returned",
                                        !.log = Append(@, "done")])
    /\ UNCHANGED <<max_devices, monitor_thread, upc, mon>>

\* lines 97-100: command ci returned (any exit status); the next one is
\* run, or "[v] Done" is logged after the last
CommandReturn(w) ==
    /\ workers[w].pc = "apply"
    /\ IF workers[w].ci < Len(commands)
       THEN /\ workers' = [workers EXCEPT ![w].ci = @ + 1,
                              ![w].resp = Append(@, Returned),
                              ![w].inv = Append(@, commands[workers[w].ci + 1])]
            /\ UNCHANGED threadpool
       ELSE PoolFinish(w, [workers[w] EXCEPT !.pc = "returned",
                                             !.resp = Append(@, Returned),
                                             !.log = Append(@, "done")])
    /\ UNCHANGED <<max_devices, monitor_thread, upc, mon>>

\* lines 97-98: a command raised; nothing catches it
CommandRaise(w) ==
    /\ workers[w].pc = "apply"
    /\ PoolFinish(w, [workers[w] EXCEPT !.pc = "raised",
                                        !.resp = Append(@, Raised)])
    /\ UNCHANGED <<max_devices, monitor_thread, upc, mon>>

(***************************************************************************)
(* MonitorThread.run, lines 118-145.                                       *)
(***************************************************************************)
\* msleep(2000), line 141: the poll interval
PollMs == 2000
\* msleep(1000), line 145: the interval after a failed poll
BackoffMs == 1000

\* MonitorThread(self.max_devices, self.signals), lines 108-116, and
\* QThread.start(): the thread exists, run() has not begun
NewMonitor ==
    [max_devices |-> max_devices, running |-> FALSE, pc |-> "started",
     stdout |-> <<>>, devices |-> <<>>, count |-> -1, submitted |-> 0,
     log |-> "none", msleep |-> 0]

\* lines 119-120
MonitorRunBegin(m) ==
    /\ mon[m].pc = "started"
    /\ mon' = [mon EXCEPT ![m].running = TRUE, ![m].pc = "while",
                          ![m].log = "monitoring_started"]
    /\ UNCHANGED <<max_devices, monitor_thread, upc, threadpool, workers>>

\* line 122, reached from line 120 or after either msleep: the flag is
\* tested; `adb devices` is called (lines 124-128), or run() returns
MonitorWhile(m) ==
    /\ mon[m].pc \in {"while", "sleep", "backoff"}
    /\ IF mon[m].running
       THEN mon' = [mon EXCEPT ![m].pc = "enumerate", ![m].log = "none",
                               ![m].msleep = 0]
       ELSE mon' = [mon EXCEPT ![m].pc = "finished"]
    /\ UNCHANGED <<max_devices, monitor_thread, upc, threadpool, workers>>

\* lines 130-135: `adb devices` returned `out`; the rows are parsed and the
\* count is emitted
EnumerateReturn(m, out) ==
    /\ mon[m].pc = "enumerate"
    /\ Len(workers) + Len(ParseDevices(out)) <= MaxWorkers
    /\ mon' = [mon EXCEPT ![m].pc = "submit", ![m].stdout = out,
                          ![m].devices = ParseDevices(out),
                          ![m].count = Len(ParseDevices(out))]
    /\ UNCHANGED <<max_devices, monitor_thread, upc, threadpool, workers>>

\* fault: a poll error ends the loop
EnumerateRaise_Exits(m) ==
    /\ mon[m].pc = "enumerate"
    /\ mon' = [mon EXCEPT ![m].pc = "finished", ![m].log = "poll_error"]
    /\ UNCHANGED <<max_devices, monitor_thread, upc, threadpool, workers>>

\* lines 143-145: `adb devices` raised; the error is logged and the loop
\* backs off with msleep(1000)
EnumerateRaise(m) ==
    /\ mon[m].pc = "enumerate"
    /\ mon' = [mon EXCEPT ![m].pc = "backoff", ![m].log = "poll_error",
                          ![m].msleep = BackoffMs]
    /\ UNCHANGED <<max_devices, monitor_thread, upc, threadpool, workers>>

\* lines 137-139: one turn of the for loop
MonitorSubmit(m) ==
    /\ mon[m].pc = "submit"
    /\ mon[m].devices # <<>>
    /\ PoolStart(m, Head(mon[m].devices))
    /\ mon' = [mon EXCEPT ![m].devices = Tail(@), ![m].submitted = @ + 1]
    /\ UNCHANGED <<max_devices, monitor_thread, upc>>

\* line 141: the for loop is over; msleep(2000).  The locals of the
\* cycle (r, devices) are dead from here on.
MonitorSleep(m) ==
    /\ mon[m].pc = "submit"
    /\ mon[m].devices = <<>>
    /\ mon' = [mon EXCEPT ![m].pc = "sleep", ![m].stdout = <<>>,
                          ![m].count = -1, ![m].submitted = 0,
                          ![m].msleep = PollMs]
    /\ UNCHANGED <<max_devices, monitor_thread, upc, threadpool, workers>>

\* QThread.isRunning()
isRunning(m) == mon[m].pc # "finished"

(***************************************************************************)
(* The UI thread: MainWindow.start_monitoring / stop_monitoring and        *)
(* MonitorThread.stop, which runs on the UI thread.                        *)
(***************************************************************************)
\* lines 291-296.  A call while a monitor is running returns at line 293
\* and changes nothing, so the step exists only when that test fails.
start_monitoring ==
    /\ upc = "idle"
    /\ ~(monitor_thread # 0 /\ isRunning(monitor_thread))
    /\ mon' = Append(mon, NewMonitor)
    /\ threadpool' = Append(threadpool, <<>>)
    /\ monitor_thread' = Len(mon) + 1
    /\ UNCHANGED <<max_devices, upc, workers>>

\* lines 304-306 and 148: stop() is entered and clears the flag.  With no
\* monitor (line 305) the handler only touches the widgets.
stop_monitoring ==
    /\ upc = "idle"
    /\ monitor_thread # 0
    /\ mon' = [mon EXCEPT ![monitor_thread].running = FALSE]
    /\ upc' = "clear"
    /\ UNCHANGED <<max_devices, monitor_thread, threadpool, workers>>

\* fault: clear() also cancels the runnables that are executing
stop_clear_CancelsActive ==
    /\ upc = "clear"
    /\ workers' = [w \in DOMAIN workers |->
                     IF /\ workers[w].pool = monitor_thread
                        /\ workers[w].pc \in ActivePcs \cup {"queued"}
                     THEN [workers[w] EXCEPT !.pc = "discarded"]
                     ELSE workers[w]]
    /\ threadpool' = [threadpool EXCEPT ![monitor_thread] = <<>>]
    /\ upc' = "wait"
    /\ UNCHANGED <<max_devices, monitor_thread, mon>>

\* line 149: threadpool.clear() drops the runnables that have not started
stop_clear ==
    /\ upc = "clear"
    /\ workers' = [w \in DOMAIN workers |->
                     IF workers[w].pool = monitor_thread /\ workers[w].pc = "queued"
                     THEN [workers[w] EXCEPT !.pc = "discarded"]
                     ELSE workers[w]]
    /\ threadpool' = [threadpool EXCEPT ![monitor_thread] = <<>>]
    /\ upc' = "wait"
    /\ UNCHANGED <<max_devices, monitor_thread, mon>>

\* wait(5000) can run out of time only against a monitor that takes more
\* than 5 s to leave run(): one inside `adb devices`, which has no timeout,
\* or one whose flag is set, which goes on polling
WaitMayTimeOut(m) == mon[m].pc = "enumerate" \/ mon[m].running

\* lines 150-152: waitForDone(3000) returns, the pool idle or 3 s gone;
\* quit() has no event loop to end; wait(5000) returns, the thread finished
\* or 5 s gone; stop() returns
stop_wait ==
    /\ upc = "wait"
    /\ ~isRunning(monitor_thread) \/ WaitMayTimeOut(monitor_thread)
    /\ upc' = "release"
    /\ UNCHANGED <<max_devices, monitor_thread, mon, threadpool, workers>>

\* line 307: self.monitor_thread = None.  When the thread has finished this
\* drops the last reference to the MonitorThread and with it to its
\* QThreadPool (line 115), whose destructor waits for the running
\* runnables; a thread still inside run() keeps the object alive.
stop_release ==
    /\ upc = "release"
    /\ isRunning(monitor_thread) \/ activeThreadCount(monitor_thread) = 0
    /\ monitor_thread' = 0
    /\ upc' = "idle"
    /\ UNCHANGED <<max_devices, mon, threadpool, workers>>

(***************************************************************************)
(* The state machine.                                                      *)
(***************************************************************************)
\* MainWindow.__init__, lines 188-204; the setting is within the range the
\* settings dialog allows (line 168)
Init ==
    /\ max_devices \in 1..MaxSetting
    /\ monitor_thread = 0
    /\ upc = "idle"
    /\ mon = <<>>
    /\ threadpool = <<>>
    /\ workers = <<>>

\* the steps of stop(), which the UI thread runs to the end once begun
StopStep ==
    \/ stop_monitoring
    \/ stop_clear
    \/ stop_wait
    \/ stop_release

MonitorStep(m) ==
    \/ MonitorRunBegin(m)
    \/ MonitorWhile(m)
    \/ MonitorSubmit(m)
    \/ MonitorSleep(m)

BridgeToMonitor(m) ==
    \/ \E out \in EnumOutputs : EnumerateReturn(m, out)
    \/ EnumerateRaise(m)

BridgeToWorker(w) ==
    \/ \E out \in ReadyOutputs : ReadinessReturn(w, out)
    \/ ReadinessRaise(w)
    \/ WakeReturn(w)
    \/ WakeRaise(w)
    \/ CommandReturn(w)
    \/ CommandRaise(w)

\* One monitor run: the collaborator starts the monitor once and may stop
\* it at any moment; the bridge answers every call in any way it can, or
\* not at all.
Next ==
    \/ mon = <<>> /\ start_monitoring
    \/ StopStep
    \/ \E m \in DOMAIN mon : MonitorStep(m)
    \/ \E m \in DOMAIN mon : BridgeToMonitor(m)
    \/ \E w \in DOMAIN workers : BridgeToWorker(w)

Spec == Init /\ [][Next]_vars

\* Start, stop and start again.  To keep the second run explorable the
\* bridge is held to a part of what it can do (one device, no exceptions):
\* every behaviour of SpecRestart is a behaviour of the program, so what it
\* exhibits is real, and nothing is concluded from what it does not reach.
EnumOutputsRestart == {<<Header>>, <<Header, Row("d1", "device")>>}

NextRestart ==
    \/ Len(mon) < MaxMonitors /\ start_monitoring
    \/ StopStep
    \/ \E m \in DOMAIN mon : MonitorStep(m)
    \/ \E m \in DOMAIN mon : \E out \in EnumOutputsRestart : EnumerateReturn(m, out)
    \/ \E w \in DOMAIN workers :
          \/ \E out \in ReadyOutputs : ReadinessReturn(w, out)
          \/ WakeReturn(w)
          \/ CommandReturn(w)

SpecRestart == Init /\ [][NextRestart]_vars

\* Scheduling: a thread that can take a step of its own code takes it.  The
\* monitor thread runs on; the UI thread, once inside stop(), runs it to the
\* end.  Nothing is assumed of the bridge (a call may never return) nor of
\* the collaborator (stop may never be asked for).
StopBody == stop_clear \/ stop_wait \/ stop_release

Fairness ==
    /\ WF_vars(\E m \in DOMAIN mon : MonitorStep(m))
    /\ WF_vars(StopBody)

LiveSpec == Spec /\ Fairness

\* lines 66-73: the readiness call alone is given timeout=120, so it is over
\* within that time: it returns, or subprocess.run raises TimeoutExpired.
\* The enumeration (124-128), the wake (82-85) and the commands (98) are
\* given no timeout, and nothing is assumed of them.
ReadinessOver(w) ==
    \/ \E out \in ReadyOutputs : ReadinessReturn(w, out)
    \/ ReadinessRaise(w)

TimeoutFairness ==
    /\ Fairness
    /\ WF_vars(\E w \in DOMAIN workers : ReadinessOver(w))

TimeoutSpec == Spec /\ TimeoutFairness

(***************************************************************************)
(* Properties.                                                             *)
(***************************************************************************)
\* the pipelines that are executing, whatever their pool
Executing == {w \in DOMAIN workers : workers[w].pc \in ActivePcs}

\* stop() has been entered for monitor m: MainWindow holds a new monitor
\* from start_monitoring until stop_monitoring, and lets go of it only at
\* the end of stop_monitoring
StopBegun(m) == monitor_thread # m \/ upc # "idle"

\* stop() has returned for monitor m
StopReturned(m) == monitor_thread # m \/ upc = "release"

\* where monitor m's thread is; "none" before the monitor exists
MonPc(m) == IF m \in DOMAIN mon THEN mon[m].pc ELSE "none"

\* the workers ever handed to pool m
Submitted(m) == {w \in DOMAIN workers : workers[w].pool = m}

\* C1: in every reachable state of a monitor run, the pipelines of its pool
\* that are executing number at most its max_devices; the excess waits in
\* the pool's queue.
C1_ActiveAtMostN ==
    \A m \in DOMAIN mon :
        /\ activeThreadCount(m) <= mon[m].max_devices
        /\ \A i \in DOMAIN threadpool[m] : workers[threadpool[m][i]].pc = "queued"
        /\ threadpool[m] # <<>> => activeThreadCount(m) = mon[m].max_devices

\* a full pool with a submission waiting behind it
C1_Witness ==
    \E m \in DOMAIN mon :
        /\ activeThreadCount(m) = mon[m].max_devices
        /\ threadpool[m] # <<>>

\* C2: over any sequence of start, stop and start again, the pipelines
\* executing in the process, those of an earlier run included, number at
\* most max_devices.
C2_TotalAtMostN == Cardinality(Executing) <= max_devices

\* C3: a pipeline whose readiness call returned anything but "1" logs the
\* boot timeout and is over, having invoked nothing but the readiness check.
C3_NotReadyStops ==
    \A w \in DOMAIN workers :
        workers[w].r \in {<<"0", "\n">>, <<>>} =>
            /\ workers[w].pc = "returned"
            /\ workers[w].log = <<"processing", "boot_timeout">>
            /\ workers[w].inv = <<"getprop">>

\* a pipeline that was answered "0"
C3_Witness ==
    \E w \in DOMAIN workers :
        workers[w].r = <<"0", "\n">> /\ workers[w].pc = "returned"

\* C4: once stop() has begun for a monitor, nothing more is submitted to its
\* pool.
C4_NoSubmitAfterStop ==
    [][\A m \in DOMAIN mon : StopBegun(m) => Submitted(m)' = Submitted(m)]_vars

\* the ready rows of the enumeration, counted without the parser: the rows
\* of two columns whose second is "device"
ReadyRows(stdout) ==
    {i \in DOMAIN stdout : Len(stdout[i]) = 2 /\ stdout[i][2] = "device"}

RECURSIVE ReadySerials(_)
ReadySerials(stdout) ==
    IF stdout = <<>> THEN <<>>
    ELSE IF Len(Head(stdout)) = 2 /\ Head(stdout)[2] = "device"
         THEN <<Head(stdout)[1]>> \o ReadySerials(Tail(stdout))
         ELSE ReadySerials(Tail(stdout))

\* the serials of the workers handed to pool m, in submission order
RECURSIVE SerialsFrom(_, _)
SerialsFrom(m, w) ==
    IF w > Len(workers) THEN <<>>
    ELSE IF workers[w].pool = m
         THEN <<workers[w].serial>> \o SerialsFrom(m, w + 1)
         ELSE SerialsFrom(m, w + 1)

\* the last n elements of s
LastN(s, n) == SubSeq(s, Len(s) - n + 1, Len(s))

\* C5: the loop never stops itself, and a failed poll is logged, waited
\* out for the backoff interval, which is shorter than the poll interval,
\* and followed by another poll attempt, for as long as stop() is not called.
C5_RetryForever ==
    /\ [](\A m \in DOMAIN mon : mon[m].pc = "finished" => StopBegun(m))
    /\ [][\A m \in DOMAIN mon :
            mon[m].pc = "enumerate" /\ mon'[m].pc \notin {"enumerate", "submit"}
                => /\ mon'[m].pc = "backoff"
                   /\ mon'[m].log = "poll_error"
                   /\ mon'[m].msleep = BackoffMs
                   /\ BackoffMs < PollMs]_vars
    /\ (MonPc(1) = "backoff" /\ ~StopBegun(1))
           ~> (MonPc(1) = "enumerate" \/ StopBegun(1))

\* a failed poll, logged, with stop() never called
C5_Witness ==
    /\ MonPc(1) = "backoff"
    /\ mon[1].log = "poll_error"
    /\ ~StopBegun(1)

\* C6: in a cycle whose enumeration returned, the count emitted is the
\* number of rows in state "device", zero included, and when the for loop is
\* over one worker has been submitted for each of them, in order.
C6_CountAndSubmit ==
    \A m \in DOMAIN mon :
        mon[m].pc = "submit" =>
            /\ mon[m].count = Cardinality(ReadyRows(mon[m].stdout))
            /\ mon[m].submitted + Len(mon[m].devices) = mon[m].count
            /\ LastN(SerialsFrom(m, 1), mon[m].submitted)
                   = SubSeq(ReadySerials(mon[m].stdout), 1, mon[m].submitted)

\* three rows, two of them ready and one offline: a count of 2 and two
\* workers submitted
C6_Witness ==
    \E m \in DOMAIN mon :
        /\ mon[m].pc = "submit"
        /\ Len(mon[m].stdout) = 4
        /\ mon[m].devices = <<>>
        /\ mon[m].count = 2
        /\ mon[m].submitted = 2

\* the invocations of a complete pipeline, in order
FullPipeline ==
    <<"getprop", "keyevent", "pm_disable_setupwizard", "am_broadcast_secret_code">>

IsPrefix(s, t) == Len(s) <= Len(t) /\ s = SubSeq(t, 1, Len(s))

\* C7: the invocations of a pipeline are, in order, the readiness check, the
\* wake and the two commands, one in flight at a time; "Done" is logged once,
\* after the last command has returned, and is logged whenever it has.
C7_StrictOrder ==
    \A w \in DOMAIN workers :
        /\ IsPrefix(workers[w].inv, FullPipeline)
        /\ workers[w].pc = "readiness" => Len(workers[w].inv) = 1
        /\ workers[w].pc = "wake" => Len(workers[w].inv) = 2
        /\ workers[w].pc = "apply" => Len(workers[w].inv) = 2 + workers[w].ci
        /\ (\E i \in DOMAIN workers[w].log : workers[w].log[i] = "done")
               => /\ workers[w].log = <<"processing", "done">>
                  /\ workers[w].inv = FullPipeline
                  /\ workers[w].pc = "returned"
        /\ workers[w].pc = "returned" /\ workers[w].inv = FullPipeline
               => workers[w].log = <<"processing", "done">>

\* a pipeline that ran to "Done"
C7_Witness ==
    \E w \in DOMAIN workers :
        workers[w].pc = "returned" /\ workers[w].log = <<"processing", "done">>

\* C8: run() never ends by an exception.
C8_NoEscape == \A w \in DOMAIN workers : workers[w].pc # "raised"

\* C9: stop() returns whatever the pipelines and the monitor thread do, and
\* no step of it touches a pipeline that is executing.
C9_StopReturns ==
    /\ [][upc' # upc =>
            \A w \in DOMAIN workers :
                workers[w].pc \in ActivePcs => workers'[w] = workers[w]]_vars
    /\ (upc = "clear") ~> (upc = "release")

\* stop() has returned while a pipeline is still in a bridge call and the
\* monitor thread is still inside `adb devices`
C9_Witness ==
    /\ upc = "release"
    /\ Executing # {}
    /\ mon[monitor_thread].pc = "enumerate"

\* C10: whatever the pipelines do, the for loop of a cycle runs to its end
\* and the loop goes on to its next poll (or returns, when stop() has cleared
\* the flag).
C10_NeverBlocked ==
    (MonPc(1) = "submit") ~> (MonPc(1) \in {"enumerate", "finished"})

\* every slot taken, a submission waiting, and the monitor polling again
C10_Witness ==
    /\ MonPc(1) = "enumerate"
    /\ activeThreadCount(1) = mon[1].max_devices
    /\ threadpool[1] # <<>>

\* C11: a bridge call that hangs does not freeze the loop: an enumeration
\* the loop is in is over at some time, and the loop goes on from it.
C11_EnumerationEnds ==
    (MonPc(1) = "enumerate") ~> (MonPc(1) # "enumerate")

\* the argv vectors of a pipeline: each invocation is made with -s <serial>
Argv(w) == [i \in 1..Len(workers[w].inv) |->
               <<"adb", "-s", workers[w].serial, workers[w].inv[i]>>]

\* C12: two pipelines for one device to which the bridge has given the same
\* answers so far have made the same invocations so far: what a run invokes
\* depends on its device and on the answers to it, on no earlier run.
C12_SameAnswersSameArgv ==
    \A v, w \in DOMAIN workers :
        /\ workers[v].serial = workers[w].serial
        /\ workers[v].inv # <<>>
        /\ workers[w].inv # <<>>
        /\ IsPrefix(workers[v].resp, workers[w].resp)
        => IsPrefix(Argv(v), Argv(w))

\* the pipeline has run twice to its end for one device, with the same
\* answers of the bridge
C12_Witness ==
    \E v, w \in DOMAIN workers :
        /\ v # w
        /\ workers[v].serial = workers[w].serial
        /\ workers[v].resp = workers[w].resp
        /\ workers[v].log = <<"processing", "done">>
        /\ workers[w].log = <<"processing", "done">>

\* C13: once stop() has returned, the loop it stopped starts no poll cycle,
\* however start() and stop() are interleaved with the monitor thread.
C13_NoCycleAfterStop ==
    [][\A m \in DOMAIN mon :
          StopReturned(m) /\ mon[m].pc # "enumerate"
          => mon'[m].pc # "enumerate"]_vars

\* a loop that goes on polling: its flag is set and it has not returned
LoopAlive(m) ==
    /\ mon[m].running
    /\ mon[m].pc \in {"while", "enumerate", "submit", "sleep", "backoff"}

\* C14: at most one monitor loop is executing poll cycles at any time.
C14_OneLoop == Cardinality({m \in DOMAIN mon : LoopAlive(m)}) <= 1

\* C15: a pipeline whose readiness check has passed attempts the wake and
\* every command, each once, and logs Done, whatever becomes of those calls.
C15_FailuresDoNotAbort ==
    \A w \in DOMAIN workers :
        IsReady(workers[w].r) /\ workers[w].pc \notin ActivePcs
        => /\ workers[w].inv = FullPipeline
           /\ workers[w].log = <<"processing", "done">>

\* C16: when the readiness call raises, the pipeline logs the boot check
\* failure and returns: it has invoked nothing but the readiness check, and
\* logs no success.
C16_RaiseStops ==
    \A w \in DOMAIN workers :
        workers[w].resp # <<>> /\ workers[w].resp[1] = Raised
        => /\ workers[w].pc = "returned"
           /\ workers[w].log = <<"processing", "boot_check_failed">>
           /\ workers[w].inv = <<"getprop">>

\* the readiness call of a pipeline has raised
C16_Witness ==
    \E w \in DOMAIN workers : workers[w].resp = <<Raised>>

\* the pipelines of pool m that have logged "[+] Processing"
Started(m) == {w \in Submitted(m) : workers[w].log # <<>>}

\* C17: once stop() has returned, no pipeline of the stopped monitor logs a
\* new "[+] Processing".
C17_NoStartAfterStop ==
    [][\A m \in DOMAIN mon :
          StopReturned(m) => Started(m)' = Started(m)]_vars

\* output that is not a header line followed by serial<TAB>status rows
Malformed(stdout) ==
    \/ stdout = <<>>
    \/ stdout[1] # Header
    \/ \E i \in 2..Len(stdout) : Len(stdout[i]) # 2

\* C18: a cycle whose enumeration output is malformed has an empty device
\* list and has logged an error.
C18_MalformedIsLogged ==
    \A m \in DOMAIN mon :
        mon[m].pc = "submit" /\ Malformed(mon[m].stdout)
        => /\ mon[m].devices = <<>>
           /\ mon[m].log = "poll_error"

WPc(w) == IF w \in DOMAIN workers THEN workers[w].pc ELSE "none"

\* C19: every pipeline that starts terminates, and frees its pool thread.
C19_PipelineTerminates ==
    \A w \in 1..MaxWorkers :
        (WPc(w) \in ActivePcs) ~> (WPc(w) \notin ActivePcs)

\* the pipelines of pool m executing for device s
ExecutingFor(m, s) == {w \in ActiveSet(workers, m) : workers[w].serial = s}

\* C20 as stated: no two pipelines for one device execute at the same time.
C20_OnePerDevice ==
    \A v, w \in Executing :
        workers[v].serial = workers[w].serial => v = w

\* C20: the pipelines of a monitor executing at the same time for one device
\* are at most max_devices: none overlap when the limit is 1, and a device
\* still present at the next poll gets a second one beside the first
\* otherwise.
C20_PerDeviceAtMostN ==
    \A m \in DOMAIN mon : \A w \in Submitted(m) :
        Cardinality(ExecutingFor(m, workers[w].serial)) <= mon[m].max_devices

\* two pipelines for one device are executing in one pool
C20_Witness ==
    \E m \in DOMAIN mon : \E w \in Submitted(m) :
        Cardinality(ExecutingFor(m, workers[w].serial)) = 2

====
